---- MODULE Spec2Model ----
(***************************************************************************)
(* Model of server.js: an Express gateway over two Supabase tables,        *)
(* "users" (an ordered roster) and "attendanceHistory".                    *)
(*                                                                         *)
(* Each handler is an async function; between two awaits it runs without   *)
(* interruption, and every await is one statement executed atomically by   *)
(* the remote store.  One action of the model is therefore one store       *)
(* statement together with the synchronous handler code that follows it    *)
(* up to the next await (or up to the response).  Requests of different    *)
(* clients interleave at statement granularity.                            *)
(*                                                                         *)
(* A store statement ends in one of three ways: it succeeds ("ok"), it     *)
(* returns {error} ("err"), or its promise rejects ("throw").  A failed    *)
(* statement has no effect on the table.                                   *)
(*                                                                         *)
(* A response stays on the wire (variable resp) until it is delivered;     *)
(* the next statement is taken after the delivery, so that every response  *)
(* is a state of its own and none is lost from view.                       *)
(***************************************************************************)
EXTENDS Integers, Sequences, FiniteSets, TLC

\* ------------------------------------------------------------------ bounds
NumClients == 2      \* requests that may be in flight at the same time
MaxUserId  == 3      \* user rows ever created, requests running concurrently
MaxSerial  == 2      \* user rows ever created, requests handled one at a time
MaxAttId   == 2      \* attendanceHistory rows ever created
MaxPathLen == 3      \* characters of a path identifier, parsing explored alone

Clients  == 1..NumClients
Outcomes == {"ok", "err", "throw"}

\* ------------------------------------------------------------------ values
NULL == "null"       \* SQL NULL / JS null

UserColumns == {"id", "order", "checked", "name"}
AttColumns  == {"id", "date", "group", "day", "note"}

\* ------------------------------------------------------- identifier parsing
\* A path identifier is a string, modelled as a sequence of characters.
Digits == <<"0", "1", "2", "3", "4", "5", "6", "7", "8", "9">>

IsDigit(ch) == \E d \in 1..10 : Digits[d] = ch

DigitVal(ch) == (CHOOSE d \in 1..10 : Digits[d] = ch) - 1

RECURSIVE DecimalValue(_)
DecimalValue(s) ==
    IF s = <<>> THEN 0
    ELSE DecimalValue(SubSeq(s, 1, Len(s) - 1)) * 10 + DigitVal(s[Len(s)])

RECURSIVE DecimalText(_)
DecimalText(n) ==
    IF n < 10 THEN <<Digits[n + 1]>>
    ELSE DecimalText(n \div 10) \o <<Digits[(n % 10) + 1]>>

AllDigits(s) == \A k \in 1..Len(s) : IsDigit(s[k])

\* A hexadecimal literal: "0x" and one or more digits (the identifiers of
\* the model have no letter but x, so its hex digits are decimal digits).
IsHex(s) ==
    /\ Len(s) >= 3
    /\ s[1] = "0"
    /\ s[2] = "x"
    /\ AllDigits(SubSeq(s, 3, Len(s)))

RECURSIVE HexValue(_)
HexValue(s) ==
    IF s = <<>> THEN 0
    ELSE HexValue(SubSeq(s, 1, Len(s) - 1)) * 16 + DigitVal(s[Len(s)])

\* Number(str): the number a string of decimal digits or a hexadecimal
\* literal denotes, NaN otherwise.
NaN == -1
Number(s) ==
    IF AllDigits(s) THEN DecimalValue(s)
    ELSE IF IsHex(s) THEN HexValue(SubSeq(s, 3, Len(s)))
    ELSE NaN

\* A parse that takes every number, zero included.
ParseIdZero(s) ==
    IF Number(s) # NaN
    THEN [kind |-> "number", num |-> Number(s), str |-> <<>>]
    ELSE [kind |-> "string", num |-> 0, str |-> s]

\* Number(req.params.id) || req.params.id : NaN and 0 are falsy, so they
\* pass the string through.
ParseId(s) ==
    IF Number(s) # NaN /\ Number(s) # 0
    THEN [kind |-> "number", num |-> Number(s), str |-> <<>>]
    ELSE [kind |-> "string", num |-> 0, str |-> s]

\* .eq("id", id): the client writes the key into the filter as text, and the
\* store casts that text to the integer type of the id column.
KeyText(key) == IF key.kind = "number" THEN DecimalText(key.num) ELSE key.str

KeyCastable(key) == KeyText(key) # <<>> /\ AllDigits(KeyText(key))

KeyMatches(key, id) == KeyCastable(key) /\ DecimalValue(KeyText(key)) = id

NoKey == [kind |-> "none", num |-> 0, str |-> <<>>]

\* ------------------------------------------------------------ row helpers
\* An update that keeps the id of the body.
KeepId(body) == body

\* { ...req.body }; delete update.id
StripId(body) == [f \in (DOMAIN body) \ {"id"} |-> body[f]]

\* update(update).eq("id", ...): a field-wise update of one row.
UpdateRow(row, upd) ==
    [col \in DOMAIN row |-> IF col \in DOMAIN upd THEN upd[col] ELSE row[col]]

\* An insert that stores the id alone.
InsertBare(cols, payload, newId) ==
    [col \in cols |-> IF col = "id" THEN newId ELSE NULL]

\* insert(payload): the store assigns the id; a column the payload does not
\* name is NULL.
InsertRow(cols, payload, newId) ==
    [col \in cols |->
        IF col = "id" THEN newId
        ELSE IF col \in DOMAIN payload THEN payload[col] ELSE NULL]

\* A listing in which the column does not increase.
Descending(rows, col) ==
    {lst \in [1..Cardinality(rows) -> rows] :
        /\ \A a, b \in 1..Cardinality(rows) : a # b => lst[a] # lst[b]
        /\ \A a, b \in 1..Cardinality(rows) : a < b => lst[a][col] >= lst[b][col]}

\* select(...).order(col, {ascending: true}): every listing of the rows in
\* which the column does not decrease (rows that tie come in any order).
SortedAsc(rows, col) ==
    {lst \in [1..Cardinality(rows) -> rows] :
        /\ \A a, b \in 1..Cardinality(rows) : a # b => lst[a] # lst[b]
        /\ \A a, b \in 1..Cardinality(rows) : a < b => lst[a][col] <= lst[b][col]}

\* select(...).order(col, {ascending: false})
SortedDesc(rows, col) == Descending(rows, col)

\* .limit(1)
Limit1(lst) == IF Len(lst) = 0 THEN <<>> ELSE <<lst[1]>>

\* ------------------------------------------------------------------- state
VARIABLES
    users,        \* the rows of table "users"
    nextUserId,   \* the id the store gives the next inserted user
    att,          \* the rows of table "attendanceHistory"
    nextAttId,    \* the id the store gives the next inserted attendance row
    req,          \* per client: the request in flight
    resp,         \* the response just sent, until it is delivered
    recent        \* history: the Create or Delete answered last, while no
                  \* statement has written to its table since

vars == <<users, nextUserId, att, nextAttId, req, resp, recent>>

\* A client with no request in flight.  Fields of a request:
\*   op, pc       the handler and the await it is suspended at
\*   pid, key     the path identifier (req.params.id) and its parsed form
\*   body         the request body
\*   newOrder     POST /users: the order computed from the max-order query
\*   all, i       DELETE /users: the re-read list (the fields the loop
\*                reads: id and order) and the loop index (1-based)
\* and, as history (not read by any handler):
\*   maxSeen      POST /users: the largest order in the table at the query
\*   seenNext     POST /users: the store's next id at the query
\*   rival        POST /users: the id of a row that another Create, which
\*                had queried the same table, inserted in the meantime
\*   found        DELETE /users: the delete statement selected a row
\*   reborn       DELETE /users: a Create inserted a row with the identifier
\*                of this request after its delete statement
\*   clean        DELETE /users: re-sequencing has run undisturbed so far
\*   erred        DELETE /users: a corrective update returned an error
Idle ==
    [op |-> "none", pc |-> "idle", pid |-> <<>>, key |-> NoKey, body |-> <<>>,
     newOrder |-> 0,
     all |-> <<>>, i |-> 0, maxSeen |-> 0, seenNext |-> 0, rival |-> 0,
     found |-> FALSE, reborn |-> FALSE, clean |-> FALSE, erred |-> FALSE]

\* No response on the wire.  Fields of a response: the client and request
\* it answers (r), the outcome of the store statement it follows (out), the
\* await the request was at (stage), whether the filter or existence check
\* of that statement selected a row (found), and what was sent: status,
\* shape of the body, data.
NoResp ==
    [client |-> 0, r |-> Idle, out |-> "none", stage |-> "none", found |-> FALSE,
     sent |-> 0, status |-> 0, shape |-> "none", data |-> <<>>]

NoRecent ==
    [kind |-> "none", key |-> NoKey, clean |-> FALSE, reborn |-> FALSE, id |-> 0,
     order |-> 0, body |-> <<>>]

Init ==
    /\ users = {}
    /\ nextUserId = 1
    /\ att = {}
    /\ nextAttId = 1
    /\ req = [c \in Clients |-> Idle]
    /\ resp = NoResp
    /\ recent = NoRecent

\* Client c has no request in flight.
Free(c) == req[c].pc = "idle"

\* The previous response has been delivered.
Ready == resp.sent = 0

\* A new request of handler o.
Begin(o) == [Idle EXCEPT !.op = o]

\* ---------------------------------------------------------------- responses
\* res.json(data) / res.status(st).json(data)
Respond(c, r, out, found, st, shp, d) ==
    [client |-> c, r |-> r, out |-> out, stage |-> r.pc, found |-> found,
     sent |-> 1, status |-> st, shape |-> shp, data |-> d]

\* An error helper that leaves the status alone (200).
handleErrNoStatus(c, r, out, found) ==
    Respond(c, r, out, found, 200, "error+detail", <<>>)

\* An error helper that answers 404.
handleErrNotFound(c, r, out, found) ==
    Respond(c, r, out, found, 404, "error+detail", <<>>)

\* handleErr(res, where, err): status 500, body {error, detail}  (lines 28-31)
handleErr(c, r, out, found) == Respond(c, r, out, found, 500, "error+detail", <<>>)

\* The client receives the response.
Deliver ==
    /\ resp.sent = 1
    /\ resp' = NoResp
    /\ UNCHANGED <<users, nextUserId, att, nextAttId, req, recent>>

\* ------------------------------------------------------------ interference
\* A write of client c to table "users" disturbs every other request that
\* is in the middle of re-sequencing (history only).
Disturb(r) ==
    IF r.op = "DeleteUsers" /\ r.pc = "loop" THEN [r EXCEPT !.clean = FALSE] ELSE r

WithWrite(c, mine) == [d \in Clients |-> IF d = c THEN mine ELSE Disturb(req[d])]

WithRead(c, mine) == [req EXCEPT ![c] = mine]

\* An insert into "users" by request r of client c, as row id: it is also
\* the rival of every Create that queried the table when r did and has not
\* inserted yet, and it brings back the identifier of a Delete in flight
\* that names it (history only).
Rival(other, r, id) ==
    IF other.op = "PostUsers" /\ other.pc = "insert" /\ other.seenNext = r.seenNext
    THEN [other EXCEPT !.rival = id]
    ELSE IF other.op = "DeleteUsers" /\ KeyMatches(other.key, id)
    THEN [Disturb(other) EXCEPT !.reborn = TRUE]
    ELSE Disturb(other)

WithInsert(c, r, id) == [d \in Clients |-> IF d = c THEN Idle ELSE Rival(req[d], r, id)]

\* recent after a statement wrote to a table (history only).
Forget(table) == IF recent.kind \in table THEN NoRecent ELSE recent

UsersMarks == {"user deleted", "user created"}
AttMarks   == {"att created"}

\* --------------------------------------------------------- request inputs
\* The store is modelled with integer id columns whose values it assigns
\* itself, counting from 1, and with integer order values.  Bodies of Create
\* requests carry no id; bodies of updates carry at least one field besides
\* id; every field a body names is a column of its table.
\* Bodies of POST /users: with and without checked (also null), and one
\* that carries an order of its own.
UserCreateBodies ==
    {[name |-> "a"],
     [name |-> "b", checked |-> "true"],
     [name |-> "a", checked |-> NULL, order |-> 5]}

\* Bodies of PUT /users/:id: both carry an id, one an order (which can leave
\* a gap or a duplicate in the orders of the table).
UserPutBodies ==
    {[id |-> 2, name |-> "b"],
     [id |-> 1, order |-> 3, checked |-> "false"]}

\* Bodies of PATCH /users/:id (the checkbox toggle).
UserPatchBodies == {[checked |-> "true"], [id |-> 3, checked |-> "false"]}

\* Path identifiers: every id the store hands out when requests are handled
\* one at a time, a zero and a non-numeric string.
UserPathIds == {DecimalText(n) : n \in 1..MaxSerial} \cup {<<"0">>, <<"x">>}

\* ============================ USERS ======================================

\* GET /users (lines 36-48)
GetUsers(c, out) ==
    /\ Ready
    /\ Free(c)
    /\ \/ /\ out = "ok"
          /\ \E data \in SortedAsc(users, "order") :
                resp' = Respond(c, Begin("GetUsers"), out, FALSE, 200, "rows", data)
       \/ /\ out \in {"err", "throw"}
          /\ resp' = handleErr(c, Begin("GetUsers"), out, FALSE)
    /\ UNCHANGED <<users, nextUserId, att, nextAttId, req, recent>>

\* A last order read off the list instead of its first row: undefined, so 0.
LastOrderOfList(maxOrderRows) == 0

\* (maxOrderRows && maxOrderRows[0]?.order) || 0   (line 64)
LastOrder(maxOrderRows) ==
    IF Len(maxOrderRows) > 0 /\ maxOrderRows[1].order # 0
    THEN maxOrderRows[1].order
    ELSE 0

\* An order that repeats the largest one.
NewOrderSame(maxOrderRows) == LastOrder(maxOrderRows)

\* const newOrder = lastOrder + 1   (line 65)
NewOrder(maxOrderRows) == LastOrder(maxOrderRows) + 1

\* An insert that computes the order anew from the table.
OrderFromTable(r, rows) ==
    IF rows = {} THEN 1
    ELSE (CHOOSE m \in {x.order : x \in rows} : \A x \in rows : x.order <= m) + 1

\* order: newOrder (line 69): the insert carries the order computed from
\* the query, whatever the table holds by then.
OrderToInsert(r, rows) == r.newOrder

\* A payload in which the fields of the body come last and win.
PayloadBodyLast(body, newOrder) ==
    [f \in (DOMAIN body) \cup {"order", "checked"} |->
        IF f \in DOMAIN body THEN body[f]
        ELSE IF f = "order" THEN newOrder ELSE "false"]

\* { ...body, order: newOrder, checked: body.checked ?? false }  (lines 67-71)
Payload(body, newOrder) ==
    [f \in (DOMAIN body) \cup {"order", "checked"} |->
        IF f = "order" THEN newOrder
        ELSE IF f = "checked"
             THEN IF "checked" \in DOMAIN body /\ body["checked"] # NULL
                  THEN body["checked"]
                  ELSE "false"
             ELSE body[f]]

\* The largest order in the table, 0 for an empty table (history).
MaxOrder(rows) ==
    IF rows = {} THEN 0
    ELSE CHOOSE m \in {r.order : r \in rows} : \A r \in rows : r.order <= m

\* POST /users, the max-order query (lines 53-71)
PostUsersQuery(c, body, out) ==
    LET r0 == [Begin("PostUsers") EXCEPT !.body = body,
                   !.maxSeen = MaxOrder(users), !.seenNext = nextUserId]
    IN
    /\ Ready
    /\ Free(c)
    /\ \/ /\ out = "ok"
          /\ \E lst \in SortedDesc(users, "order") :
                LET maxOrderRows == Limit1([k \in DOMAIN lst |-> [order |-> lst[k].order]])
                IN  req' = WithRead(c, [r0 EXCEPT !.pc = "insert",
                                           !.newOrder = NewOrder(maxOrderRows)])
          /\ resp' = resp
       \/ /\ out \in {"err", "throw"}
          /\ req' = req
          /\ resp' = handleErr(c, r0, out, FALSE)
    /\ UNCHANGED <<users, nextUserId, att, nextAttId, recent>>

\* POST /users, the insert (lines 73-81)
PostUsersInsert(c, out) ==
    LET r == req[c] IN
    /\ Ready
    /\ r.op = "PostUsers"
    /\ r.pc = "insert"
    /\ \/ /\ out = "ok"
          /\ LET row == InsertRow(UserColumns,
                            Payload(r.body, OrderToInsert(r, users)), nextUserId)
             IN  /\ users' = users \cup {row}
                 /\ nextUserId' = nextUserId + 1
                 /\ req' = WithInsert(c, r, nextUserId)
                 /\ resp' = Respond(c, r, out, FALSE, 201, "row", row)
                 /\ recent' = [NoRecent EXCEPT !.kind = "user created",
                                  !.id = nextUserId, !.order = row.order,
                                  !.body = r.body]
       \/ /\ out \in {"err", "throw"}
          /\ req' = WithRead(c, Idle)
          /\ resp' = handleErr(c, r, out, FALSE)
          /\ UNCHANGED <<users, nextUserId, recent>>
    /\ UNCHANGED <<att, nextAttId>>

\* The rows of a table that .eq("id", key) selects.
Matching(rows, key) == {r \in rows : KeyMatches(key, r.id)}

\* update(update).eq("id", id).select().single() on table "users"
\* (lines 90-103 and 112-125).  The store rejects a key it cannot cast to
\* the id column; single() turns "no row" into an error.
UsersUpdate(c, o, pid, body, out) ==
    LET key    == ParseId(pid)
        update == StripId(body)
        r0     == [Begin(o) EXCEPT !.pid = pid, !.key = key, !.body = body]
        found  == Matching(users, key) # {}
    IN
    /\ Ready
    /\ Free(c)
    /\ \/ /\ out = "ok"
          /\ found
          /\ \E row \in Matching(users, key) :
                LET new == UpdateRow(row, update)
                IN  /\ users' = (users \ {row}) \cup {new}
                    /\ resp' = Respond(c, r0, out, found, 200, "row", new)
          /\ req' = WithWrite(c, Idle)
          /\ recent' = Forget(UsersMarks)
       \/ /\ \/ out \in {"err", "throw"}
             \/ out = "ok" /\ ~found
          /\ resp' = handleErr(c, r0, out, found)
          /\ UNCHANGED <<users, req, recent>>
    /\ UNCHANGED <<nextUserId, att, nextAttId>>

\* PUT /users/:id (lines 88-107)
PutUsers(c, pid, body, out) == UsersUpdate(c, "PutUsers", pid, body, out)

\* PATCH /users/:id (lines 110-129)
PatchUsers(c, pid, body, out) == UsersUpdate(c, "PatchUsers", pid, body, out)

\* A search that takes only an order below the position for misplaced.
RECURSIVE NextBelow(_, _)
NextBelow(all, from) ==
    IF from > Len(all) THEN Len(all) + 1
    ELSE IF all[from].order < from THEN from
    ELSE NextBelow(all, from + 1)

\* The first position at or after `from` whose row is out of place
\* (all[i].order !== i + 1, 0-based), or Len(all) + 1.
RECURSIVE NextMisplaced(_, _)
NextMisplaced(all, from) ==
    IF from > Len(all) THEN Len(all) + 1
    ELSE IF all[from].order # from THEN from
    ELSE NextMisplaced(all, from + 1)

\* A loop that searches the list from its start after every update.
LoopAgain(r, from) ==
    IF NextMisplaced(r.all, 1) > Len(r.all)
    THEN Idle
    ELSE [r EXCEPT !.pc = "loop", !.i = NextMisplaced(r.all, 1)]

\* The for loop of lines 147-154 from position `from`: suspended at its
\* next await, or through (pc "idle": res.json({ success: true }) follows).
LoopFrom(r, from) ==
    IF NextMisplaced(r.all, from) > Len(r.all)
    THEN Idle
    ELSE [r EXCEPT !.pc = "loop", !.i = NextMisplaced(r.all, from)]

\* DELETE /users/:id, the delete statement (lines 134-137).  Without
\* single(), a filter that selects no row is no error.
DeleteUsersDelete(c, pid, out) ==
    LET key   == ParseId(pid)
        found == Matching(users, key) # {}
        r0    == [Begin("DeleteUsers") EXCEPT !.pid = pid, !.key = key, !.found = found]
    IN
    /\ Ready
    /\ Free(c)
    /\ \/ /\ out = "ok"
          /\ KeyCastable(key)
          /\ users' = users \ Matching(users, key)
          /\ req' = WithWrite(c, [r0 EXCEPT !.pc = "refetch"])
          /\ recent' = Forget(UsersMarks)
          /\ resp' = resp
       \/ /\ \/ out \in {"err", "throw"}
             \/ out = "ok" /\ ~KeyCastable(key)
          /\ resp' = handleErr(c, r0, out, found)
          /\ UNCHANGED <<users, req, recent>>
    /\ UNCHANGED <<nextUserId, att, nextAttId>>

\* A loop that ends without the response.
AfterLoopSilent(c, r, out, next) == resp

\* res.json({ success: true }) (line 156) after the loop, or nothing yet.
AfterLoop(c, r, out, next) ==
    IF next.pc = "idle" THEN Respond(c, r, out, r.found, 200, "success", <<>>) ELSE resp

Deleted(r, next) ==
    IF next.pc = "idle"
    THEN [NoRecent EXCEPT !.kind = "user deleted", !.key = r.key,
                          !.clean = r.clean, !.reborn = r.reborn]
    ELSE recent

\* DELETE /users/:id, the re-read and the loop up to its first await
\* (lines 140-156)
DeleteUsersRefetch(c, out) ==
    LET r == req[c] IN
    /\ Ready
    /\ r.op = "DeleteUsers"
    /\ r.pc = "refetch"
    /\ \/ /\ out = "ok"
          /\ \E lst \in SortedAsc(users, "order") :
                LET all == [k \in DOMAIN lst |-> [id |-> lst[k].id, order |-> lst[k].order]]
                    r1  == [r EXCEPT !.all = all, !.clean = TRUE]
                IN  /\ req' = WithRead(c, LoopFrom(r1, 1))
                    /\ resp' = AfterLoop(c, r1, out, LoopFrom(r1, 1))
                    /\ recent' = Deleted(r1, LoopFrom(r1, 1))
       \/ /\ out \in {"err", "throw"}
          /\ req' = WithRead(c, Idle)
          /\ resp' = handleErr(c, r, out, r.found)
          /\ recent' = recent
    /\ UNCHANGED <<users, nextUserId, att, nextAttId>>

\* A corrective update that also clears the checkbox.
SetOrderUnchecked(rows, id, n) ==
    {IF r.id = id THEN UpdateRow(r, [order |-> n, checked |-> "false"]) ELSE r : r \in rows}

\* A re-sequencing that numbers the positions from 0.
SetOrderZeroBased(rows, id, n) ==
    {IF r.id = id THEN UpdateRow(r, [order |-> n - 1]) ELSE r : r \in rows}

\* update({ order: i + 1 }).eq("id", all[i].id)   (lines 149-152)
SetOrder(rows, id, n) ==
    {IF r.id = id THEN UpdateRow(r, [order |-> n]) ELSE r : r \in rows}

\* A loop that checks the error a corrective update returns.
AfterUpdateChecked(out) == IF out # "ok" THEN "catch" ELSE "go on"

\* What the loop does with the outcome of a corrective update (lines
\* 149-153): the value awaited is dropped, so a returned error is not seen
\* ("go on"); only a rejected promise leaves the loop, for the catch block.
AfterUpdate(out) == IF out = "throw" THEN "catch" ELSE "go on"

\* DELETE /users/:id, one corrective update and the loop after it
\* (lines 147-159)
DeleteUsersUpdate(c, out) ==
    LET r  == req[c]
        r1 == IF out = "ok" THEN r ELSE [r EXCEPT !.clean = FALSE, !.erred = TRUE]
    IN
    /\ Ready
    /\ r.op = "DeleteUsers"
    /\ r.pc = "loop"
    /\ IF AfterUpdate(out) = "catch"
       THEN /\ req' = WithRead(c, Idle)
            /\ resp' = handleErr(c, r1, out, r1.found)
            /\ UNCHANGED <<users, recent>>
       ELSE /\ IF out = "ok"
               THEN /\ users' = SetOrder(users, r.all[r.i].id, r.i)
                    /\ req' = WithWrite(c, LoopFrom(r1, r.i + 1))
               ELSE /\ users' = users
                    /\ req' = WithRead(c, LoopFrom(r1, r.i + 1))
            /\ resp' = AfterLoop(c, r1, out, LoopFrom(r1, r.i + 1))
            /\ recent' = IF out = "ok" /\ LoopFrom(r1, r.i + 1).pc # "idle"
                         THEN Forget(UsersMarks)
                         ELSE Deleted(r1, LoopFrom(r1, r.i + 1))
    /\ UNCHANGED <<nextUserId, att, nextAttId>>

\* ====================== ATTENDANCE HISTORY ===============================

\* Bodies of POST /attendanceHistory: one triple twice (with and without an
\* extra field), and triples that differ from it in date, in group, in day.
AttCreateBodies ==
    {[date |-> "d1", group |-> "g1", day |-> "t1"],
     [date |-> "d1", group |-> "g1", day |-> "t1", note |-> "n"],
     [date |-> "d2", group |-> "g1", day |-> "t1"],
     [date |-> "d1", group |-> "g2", day |-> "t1"],
     [date |-> "d1", group |-> "g1", day |-> "t2", note |-> "n"]}

\* Bodies of PUT /attendanceHistory/:id: one that leaves the triple alone
\* and two that change it.
AttPutBodies ==
    {[id |-> 1, note |-> "n"],
     [day |-> "t2"],
     [id |-> 2, date |-> "d1", group |-> "g1", day |-> "t1"]}

AttPathIds == {DecimalText(n) : n \in 1..MaxAttId} \cup {<<"0">>, <<"x">>}

\* GET /attendanceHistory (lines 165-178): ids are distinct, so the order
\* by id is one listing.
GetAtt(c, out) ==
    /\ Ready
    /\ Free(c)
    /\ \/ /\ out = "ok"
          /\ \E data \in SortedAsc(att, "id") :
                resp' = Respond(c, Begin("GetAtt"), out, FALSE, 200, "rows", data)
       \/ /\ out \in {"err", "throw"}
          /\ resp' = handleErr(c, Begin("GetAtt"), out, FALSE)
    /\ UNCHANGED <<users, nextUserId, att, nextAttId, req, recent>>

\* An existence check that leaves out the day.
ExistsDateGroup(rows, body) ==
    {r \in rows : r.date = body.date /\ r.group = body.group}

\* .eq("date", body.date).eq("group", body.group).eq("day", body.day)
\* (lines 185-190)
Exists(rows, body) ==
    {r \in rows : r.date = body.date /\ r.group = body.group /\ r.day = body.day}

\* A check that lets a single match pass.
RejectsSeveral(exists) == Cardinality(exists) > 1

\* if (exists.length > 0)   (line 194)
Rejects(exists) == Cardinality(exists) > 0

\* POST /attendanceHistory, the existence check (lines 183-197)
PostAttCheck(c, body, out) ==
    LET r0     == [Begin("PostAtt") EXCEPT !.body = body]
        exists == Exists(att, body)
    IN
    /\ Ready
    /\ Free(c)
    /\ \/ /\ out = "ok"
          /\ IF Rejects(exists)
             THEN /\ resp' = Respond(c, r0, out, TRUE, 400, "error", <<>>)
                  /\ req' = req
             ELSE /\ resp' = resp
                  /\ req' = WithRead(c, [r0 EXCEPT !.pc = "insert"])
       \/ /\ out \in {"err", "throw"}
          /\ resp' = handleErr(c, r0, out, exists # {})
          /\ req' = req
    /\ UNCHANGED <<users, nextUserId, att, nextAttId, recent>>

\* POST /attendanceHistory, the insert (lines 199-207)
PostAttInsert(c, out) ==
    LET r == req[c] IN
    /\ Ready
    /\ r.op = "PostAtt"
    /\ r.pc = "insert"
    /\ req' = WithRead(c, Idle)
    /\ \/ /\ out = "ok"
          /\ LET row == InsertRow(AttColumns, r.body, nextAttId)
             IN  /\ att' = att \cup {row}
                 /\ nextAttId' = nextAttId + 1
                 /\ resp' = Respond(c, r, out, Exists(att, r.body) # {}, 201, "row", row)
                 /\ recent' = [NoRecent EXCEPT !.kind = "att created",
                                  !.id = nextAttId, !.body = r.body]
       \/ /\ out \in {"err", "throw"}
          /\ resp' = handleErr(c, r, out, Exists(att, r.body) # {})
          /\ UNCHANGED <<att, nextAttId, recent>>
    /\ UNCHANGED <<users, nextUserId>>

\* PUT /attendanceHistory/:id (lines 214-233)
PutAtt(c, pid, body, out) ==
    LET key    == ParseId(pid)
        update == StripId(body)
        r0     == [Begin("PutAtt") EXCEPT !.pid = pid, !.key = key, !.body = body]
        found  == Matching(att, key) # {}
    IN
    /\ Ready
    /\ Free(c)
    /\ \/ /\ out = "ok"
          /\ found
          /\ \E row \in Matching(att, key) :
                LET new == UpdateRow(row, update)
                IN  /\ att' = (att \ {row}) \cup {new}
                    /\ resp' = Respond(c, r0, out, found, 200, "row", new)
          /\ recent' = Forget(AttMarks)
       \/ /\ \/ out \in {"err", "throw"}
             \/ out = "ok" /\ ~found
          /\ resp' = handleErr(c, r0, out, found)
          /\ UNCHANGED <<att, recent>>
    /\ UNCHANGED <<users, nextUserId, nextAttId, req>>

\* DELETE /attendanceHistory/:id (lines 236-250)
DeleteAtt(c, pid, out) ==
    LET key   == ParseId(pid)
        r0    == [Begin("DeleteAtt") EXCEPT !.pid = pid, !.key = key]
        found == Matching(att, key) # {}
    IN
    /\ Ready
    /\ Free(c)
    /\ \/ /\ out = "ok"
          /\ KeyCastable(key)
          /\ att' = att \ Matching(att, key)
          /\ resp' = Respond(c, r0, out, found, 200, "success", <<>>)
          /\ recent' = Forget(AttMarks)
       \/ /\ \/ out \in {"err", "throw"}
             \/ out = "ok" /\ ~KeyCastable(key)
          /\ resp' = handleErr(c, r0, out, found)
          /\ UNCHANGED <<att, recent>>
    /\ UNCHANGED <<users, nextUserId, nextAttId, req>>

\* ============================ SYSTEM =====================================

\* The ids the store has handed out, with those of the inserts pending.
UsersCreated == nextUserId - 1 + Cardinality({c \in Clients : req[c].op = "PostUsers"})
AttCreated   == nextAttId - 1 + Cardinality({c \in Clients : req[c].op = "PostAtt"})

UsersStep(c, out) ==
    \/ GetUsers(c, out)
    \/ /\ UsersCreated < MaxSerial
       /\ \E body \in UserCreateBodies : PostUsersQuery(c, body, out)
    \/ PostUsersInsert(c, out)
    \/ \E pid \in UserPathIds, body \in UserPutBodies : PutUsers(c, pid, body, out)
    \/ \E pid \in UserPathIds, body \in UserPatchBodies : PatchUsers(c, pid, body, out)
    \/ \E pid \in UserPathIds : DeleteUsersDelete(c, pid, out)
    \/ DeleteUsersRefetch(c, out)
    \/ DeleteUsersUpdate(c, out)

AttStep(c, out) ==
    \/ GetAtt(c, out)
    \/ /\ AttCreated < MaxAttId
       /\ \E body \in AttCreateBodies : PostAttCheck(c, body, out)
    \/ PostAttInsert(c, out)
    \/ \E pid \in AttPathIds, body \in AttPutBodies : PutAtt(c, pid, body, out)
    \/ \E pid \in AttPathIds : DeleteAtt(c, pid, out)

\* The two resources share no state: no handler reads or writes both
\* tables.  A run is therefore explored with one table in use: a request
\* on one resource is taken while the other resource is untouched.
UsersUnused ==
    users = {} /\ nextUserId = 1 /\ \A c \in Clients : req[c].op \notin {"PostUsers", "DeleteUsers"}
AttUnused ==
    att = {} /\ nextAttId = 1 /\ \A c \in Clients : req[c].op # "PostAtt"

\* Requests handled one at a time, all nine handlers, every store statement
\* free to fail.
Front == CHOOSE c \in Clients : \A d \in Clients : c <= d

Next ==
    \/ /\ Ready
       /\ \E out \in Outcomes :
            \/ AttUnused /\ UsersStep(Front, out)
            \/ UsersUnused /\ AttStep(Front, out)
    \/ Deliver

Spec == Init /\ [][Next]_vars

\* The store call a request is suspended at returns or throws, and the
\* handler runs on to its next await or to its response.
Await ==
    /\ Ready
    /\ \E out \in Outcomes :
          \/ PostUsersInsert(Front, out)
          \/ DeleteUsersRefetch(Front, out)
          \/ DeleteUsersUpdate(Front, out)
          \/ PostAttInsert(Front, out)

\* Requests handled one at a time, every store call awaited coming back.
SpecLive == Init /\ [][Next]_vars /\ WF_vars(Await)

\* Concurrent requests on the users resource: Create, Delete and List of
\* every client interleave statement by statement, every store statement
\* free to fail.
RosterBodies == {[name |-> "a"]}
RosterPathIds == {DecimalText(n) : n \in 1..MaxUserId}

NextRoster ==
    \/ /\ Ready
       /\ \E c \in Clients, out \in Outcomes :
            \/ GetUsers(c, out)
            \/ /\ UsersCreated < MaxUserId
               /\ \E body \in RosterBodies : PostUsersQuery(c, body, out)
            \/ PostUsersInsert(c, out)
            \/ \E pid \in RosterPathIds : DeleteUsersDelete(c, pid, out)
            \/ DeleteUsersRefetch(c, out)
            \/ DeleteUsersUpdate(c, out)
    \/ Deliver

SpecRoster == Init /\ [][NextRoster]_vars

\* Concurrent Create requests on the users resource, no store failure.
NextRace ==
    \/ /\ Ready
       /\ \E c \in Clients :
            \/ /\ UsersCreated < MaxUserId
               /\ \E body \in UserCreateBodies : PostUsersQuery(c, body, "ok")
            \/ PostUsersInsert(c, "ok")
    \/ Deliver

SpecRace == Init /\ [][NextRace]_vars

\* Concurrent Delete requests on the users resource, no store failure: the
\* table is filled by Creates handled one at a time while nothing else is
\* in flight, and the Deletes of the clients interleave statement by
\* statement.
Quiet == \A c \in Clients : Free(c)

NoCreate == \A c \in Clients : req[c].op # "PostUsers"

NextDeletes ==
    \/ /\ Ready
       /\ \E c \in Clients :
            \/ /\ Quiet
               /\ UsersCreated < MaxUserId
               /\ \E body \in RosterBodies : PostUsersQuery(c, body, "ok")
            \/ PostUsersInsert(c, "ok")
            \/ /\ NoCreate
               /\ \E pid \in RosterPathIds : DeleteUsersDelete(c, pid, "ok")
            \/ DeleteUsersRefetch(c, "ok")
            \/ DeleteUsersUpdate(c, "ok")
    \/ Deliver

SpecDeletes == Init /\ [][NextDeletes]_vars

\* User Create and Delete requests handled one at a time, no store failure.
NextQuiet ==
    \/ /\ Ready
       /\ \/ /\ UsersCreated < MaxUserId
             /\ \E body \in UserCreateBodies : PostUsersQuery(Front, body, "ok")
          \/ PostUsersInsert(Front, "ok")
          \/ \E pid \in RosterPathIds \cup {<<"0">>, <<"x">>} :
                DeleteUsersDelete(Front, pid, "ok")
          \/ DeleteUsersRefetch(Front, "ok")
          \/ DeleteUsersUpdate(Front, "ok")
    \/ Deliver

SpecQuiet == Init /\ [][NextQuiet]_vars

\* Identifier parsing explored alone: the five handlers that take a path
\* identifier, on every string of up to MaxPathLen characters over the
\* alphabet below, with a few attendanceHistory records to match and no
\* store failure (the users handlers run on the empty users table, while
\* attendanceHistory is untouched).
PathAlphabet == {"0", "1", "2", "x"}

PathStrings == UNION {[1..n -> PathAlphabet] : n \in 1..MaxPathLen}

ParseCreateBodies ==
    {[date |-> "d1", group |-> "g1", day |-> "t1"],
     [date |-> "d2", group |-> "g1", day |-> "t1"]}

ParsePutBodies == {[id |-> 1, note |-> "n"]}

ParseUserBodies == {[checked |-> "true"]}

NextParse ==
    \/ /\ Ready
       /\ \/ /\ AttCreated < MaxAttId
             /\ \E body \in ParseCreateBodies : PostAttCheck(Front, body, "ok")
          \/ PostAttInsert(Front, "ok")
          \/ \E pid \in PathStrings :
                \/ \E body \in ParsePutBodies : PutAtt(Front, pid, body, "ok")
                \/ DeleteAtt(Front, pid, "ok")
          \/ /\ AttUnused
             /\ \E pid \in PathStrings :
                   \/ \E body \in ParseUserBodies : PutUsers(Front, pid, body, "ok")
                   \/ \E body \in ParseUserBodies : PatchUsers(Front, pid, body, "ok")
                   \/ DeleteUsersDelete(Front, pid, "ok")
          \/ DeleteUsersRefetch(Front, "ok")
    \/ Deliver

SpecParse == Init /\ [][NextParse]_vars

\* ============================ PROPERTIES =================================

\* A response of handler o is on the wire.
Answered(o) == resp.sent = 1 /\ resp.r.op = o

\* The latest step sent a response.
Sends == resp.sent = 0 /\ resp'.sent = 1

Is500(rsp) == rsp.status = 500 /\ rsp.shape = "error+detail"

IsSuccess(rsp) == rsp.status = 200 /\ rsp.shape = "success"

\* The order values of a table are exactly 1..N, N its number of rows.
Dense(rows) == {r.order : r \in rows} = 1..Cardinality(rows)

\* ---------------------------------------------------------------------- C1
\* A user Delete has completed: its delete, its re-read and its loop are
\* done and { success: true } is on the wire.
DeleteCompleted ==
    /\ Answered("DeleteUsers")
    /\ IsSuccess(resp)
    /\ resp.stage \in {"refetch", "loop"}

ListAfterDelete ==
    /\ Answered("GetUsers")
    /\ resp.status = 200
    /\ recent.kind = "user deleted"

NotListed(key, data) == \A k \in DOMAIN data : ~KeyMatches(key, data[k].id)

InPlace(data) == \A k \in DOMAIN data : data[k].order = k

TripleFields == {"date", "group", "day"}

SameTriple(a, b) == a.date = b.date /\ a.group = b.group /\ a.day = b.day

\* No two records of the table share a (date, group, day) triple.
NoDup(rows) == \A a, b \in rows : SameTriple(a, b) => a = b

\* C2 as stated: in every state reachable through attendanceHistory Create,
\* Replace and Delete requests, no two records share a triple.
C2_AsStated == NoDup(att)

\* The latest step is a Replace whose body carries date, group or day.
ReplacesTriple ==
    /\ Sends
    /\ resp'.r.op = "PutAtt"
    /\ (DOMAIN resp'.r.body) \cap TripleFields # {}

\* C2 amended: with requests handled one at a time, no step of an
\* attendanceHistory Create or Delete, and no Replace whose body carries
\* none of date, group and day, makes two records share a triple; only a
\* Replace that carries date, group or day (which is not re-validated) can.
C2_TripleUniqueness ==
    [][(NoDup(att) /\ ~ReplacesTriple) => NoDup(att')]_vars

\* A second Create has been answered 201, and the two records differ in
\* their triples.
C2_Witness ==
    /\ Answered("PostAtt")
    /\ resp.status = 201
    /\ Cardinality(att) = 2
    /\ NoDup(att)

\* ---------------------------------------------------------------------- C3
\* A record with the triple of the body exists.
Duplicate(rows, body) == \E row \in rows : SameTriple(row, body)

\* The latest step answered an attendanceHistory Create from its existence
\* check, the check itself having succeeded.
AnsweredAtCheck ==
    /\ Sends
    /\ resp'.r.op = "PostAtt"
    /\ resp'.stage = "idle"
    /\ resp'.out = "ok"

\* The latest step passed the existence check of client c and went on to
\* the insert.
PassedCheck(c) == req[c].pc = "idle" /\ req'[c].op = "PostAtt" /\ req'[c].pc = "insert"

\* The latest step is a successful insert of an attendanceHistory Create.
Inserted ==
    /\ Sends
    /\ resp'.r.op = "PostAtt"
    /\ resp'.stage = "insert"
    /\ resp'.out = "ok"

\* C3: with requests handled one at a time and the store statements
\* succeeding, an attendanceHistory Create is answered from its existence
\* check exactly when a record with the triple of its body exists, the
\* answer is then 400 with {error}, no insert is pending and the store is
\* unchanged; otherwise the Create goes on to the insert, which adds the
\* body with a new id and is answered 201 with that record.
C3_DuplicateRejection ==
    [][ /\ AnsweredAtCheck =>
              /\ Duplicate(att, resp'.r.body)
              /\ resp'.status = 400 /\ resp'.shape = "error"
              /\ att' = att /\ nextAttId' = nextAttId
              /\ \A c \in Clients : req'[c].op # "PostAtt"
        /\ \A c \in Clients : PassedCheck(c) =>
              /\ ~Duplicate(att, req'[c].body)
              /\ att' = att
        /\ Inserted =>
              /\ ~Duplicate(att, resp'.r.body)
              /\ resp'.status = 201 /\ resp'.shape = "row"
              /\ resp'.data.id = nextAttId
              /\ \A f \in DOMAIN resp'.r.body : resp'.data[f] = resp'.r.body[f]
              /\ att' = att \cup {resp'.data}
      ]_vars

\* A Create answered 400 whose body has the triple of the stored record
\* and a note the record does not have.
C3_Witness ==
    /\ Answered("PostAtt")
    /\ resp.status = 400
    /\ "note" \in DOMAIN resp.r.body
    /\ \E row \in att : SameTriple(row, resp.r.body) /\ row.note = NULL

\* ---------------------------------------------------------------------- C4
\* C4: with requests handled one at a time, a user Create answered 201
\* stored a record whose order is M + 1, M the largest order in the table
\* when the Create was handled (0 for an empty table, so the order is 1).
C4_OrderAssignment ==
    (Answered("PostUsers") /\ resp.status = 201) =>
        /\ resp.data \in users
        /\ resp.data.order = resp.r.maxSeen + 1
        /\ resp.r.seenNext = 1 => resp.data.order = 1

\* A Create answered 201 into a table whose largest order was 3.
C4_Witness ==
    /\ Answered("PostUsers")
    /\ resp.status = 201
    /\ resp.r.maxSeen = 3
    /\ resp.data.order = 4

\* ---------------------------------------------------------------------- C6
\* The latest step answered a user Replace or Partial update.
UpdatedUser == Sends /\ resp'.r.op \in {"PutUsers", "PatchUsers"}

\* Record new is record old with the fields of the body, id apart.
Merged(old, body, new) ==
    /\ new.id = old.id
    /\ \A col \in UserColumns \ {"id"} :
          new[col] = IF col \in DOMAIN body THEN body[col] ELSE old[col]

Ids(rows) == {r.id : r \in rows}

\* C6: a user Replace or Partial update on identifier X answered 200
\* changes, on the record X, the fields its body supplies (id apart) and
\* nothing else, leaves every other record as it was and returns the
\* record; no such request, whatever its answer, changes the identifier of
\* any record.
C6_FieldIsolation ==
    [][UpdatedUser =>
          /\ Ids(users') = Ids(users)
          /\ resp'.status = 200 =>
                \E old \in users :
                    /\ KeyMatches(resp'.r.key, old.id)
                    /\ Merged(old, resp'.r.body, resp'.data)
                    /\ users' = (users \ {old}) \cup {resp'.data}
          /\ resp'.status # 200 => users' = users
      ]_vars

\* A Replace answered 200 whose body names the id of another record, with
\* two records in the table.
C6_Witness ==
    /\ Answered("PutUsers")
    /\ resp.status = 200
    /\ "id" \in DOMAIN resp.r.body
    /\ resp.r.body.id # resp.data.id
    /\ resp.r.body.id \in Ids(users)
    /\ Cardinality(users) = 2

\* ---------------------------------------------------------------------- C7
\* A List answered while the latest write to its table is that of a
\* Create answered 201.
ListAfterCreate ==
    /\ resp.sent = 1
    /\ resp.status = 200
    /\ \/ resp.r.op = "GetUsers" /\ recent.kind = "user created"
       \/ resp.r.op = "GetAtt" /\ recent.kind = "att created"

\* The fields of a Create body that the server sets itself: for users the
\* order, and checked when the body gives null for it.
ServerSet(kind, body) ==
    IF kind = "user created"
    THEN {"order"} \cup {f \in {"checked"} : f \in DOMAIN body /\ body[f] = NULL}
    ELSE {}

\* Record rec has the server-assigned id and, for users, the server-assigned
\* order and the default of checked.
ServerFields(rec) ==
    /\ rec.id = recent.id
    /\ recent.kind = "user created" =>
          /\ rec.order = recent.order
          /\ ("checked" \notin DOMAIN recent.body \/ recent.body["checked"] = NULL)
                => rec.checked = "false"

\* C7 as stated: the List that follows a successful Create returns a
\* record with the assigned id whose every caller-supplied field equals the
\* value of the create body, with the server-assigned id, order and checked
\* default.
C7_AsStated ==
    ListAfterCreate =>
        \E k \in DOMAIN resp.data :
            /\ ServerFields(resp.data[k])
            /\ \A f \in DOMAIN recent.body : resp.data[k][f] = recent.body[f]

\* C7 amended: the List that follows a successful Create, with no write to
\* the table in between, returns a record with the assigned id whose every
\* caller-supplied field equals the value of the create body, except that
\* for users an order in the body is replaced by the server-assigned order
\* and a null checked by false; the record has the server-assigned id and,
\* for users, the server-assigned order and false for an absent checked.
C7_RoundTrip ==
    ListAfterCreate =>
        \E k \in DOMAIN resp.data :
            /\ ServerFields(resp.data[k])
            /\ \A f \in (DOMAIN recent.body) \ ServerSet(recent.kind, recent.body) :
                  resp.data[k][f] = recent.body[f]

\* A List of two users after the Create of a body with a name and a
\* checked of its own.
C7_Witness ==
    /\ ListAfterCreate
    /\ recent.kind = "user created"
    /\ "checked" \in DOMAIN recent.body
    /\ recent.body["checked"] = "true"
    /\ Len(resp.data) = 2

\* ---------------------------------------------------------------------- C8
Updates == {"PutUsers", "PatchUsers", "PutAtt"}
Deletes == {"DeleteUsers", "DeleteAtt"}

\* A response to an update or delete whose identifier matched no record.
NotFound ==
    /\ resp.sent = 1
    /\ resp.r.op \in Updates \cup Deletes
    /\ ~resp.found

\* C8 as stated (the answer): every update and every delete whose
\* identifier matches no record is answered 500 with {error, detail}.
C8_AsStated == NotFound => Is500(resp)

\* The latest step is the delete statement of a user Delete whose
\* identifier matched no record, and the request goes on.
DeletedNoUser(c) ==
    /\ req[c].pc = "idle"
    /\ req'[c].op = "DeleteUsers"
    /\ req'[c].pc = "refetch"
    /\ ~req'[c].found

\* C8 amended: every update (users PUT/PATCH, attendanceHistory PUT) whose
\* identifier matches no record is answered 500 with {error, detail} and
\* leaves the store unchanged; a delete (users, attendanceHistory) whose
\* identifier matches no record removes nothing, and is answered 500 with
\* {error, detail} only when the store cannot read the identifier as an id
\* or a store statement fails: when its store statements succeed it is
\* answered 200 with {success: true}.
C8_NotFound ==
    [][ /\ (Sends /\ resp'.r.op \in Updates /\ ~resp'.found) =>
              /\ Is500(resp')
              /\ users' = users /\ att' = att
        /\ (Sends /\ resp'.r.op \in Deletes /\ ~resp'.found) =>
              /\ Ids(users') = Ids(users) /\ att' = att
              /\ (resp'.out = "ok" /\ KeyCastable(resp'.r.key)) => IsSuccess(resp')
              /\ ~KeyCastable(resp'.r.key) => Is500(resp') /\ users' = users
        /\ \A c \in Clients : DeletedNoUser(c) => users' = users
      ]_vars

\* An attendanceHistory Delete of an identifier that matches none of the
\* records, answered {success: true}.
C8_Witness ==
    /\ Answered("DeleteAtt")
    /\ ~resp.found
    /\ IsSuccess(resp)
    /\ att # {}

\* ---------------------------------------------------------------------- C9
\* A response to a user Delete whose delete statement had succeeded.
AfterPrimaryDelete ==
    /\ Answered("DeleteUsers")
    /\ resp.stage \in {"refetch", "loop"}

\* C9 as stated: once the delete statement of a user Delete has succeeded,
\* the request is answered {success: true} whatever the re-read and the
\* corrective updates do.
C9_AsStated == AfterPrimaryDelete => IsSuccess(resp)

\* The re-sequencing failure that ended the request: the re-read failed, or
\* a corrective update threw.
Reported ==
    \/ resp.stage = "refetch" /\ resp.out # "ok"
    \/ resp.stage = "loop" /\ resp.out = "throw"

\* C9 amended: once the delete statement of a user Delete has succeeded,
\* the request is answered {success: true} unless the re-read fails or a
\* corrective update throws, and then it is answered 500 with {error,
\* detail}; an error that a corrective update returns is ignored and not
\* reported.
C9_DeleteSuccess ==
    AfterPrimaryDelete =>
        /\ ~Reported => IsSuccess(resp)
        /\ Reported => Is500(resp)

\* A Delete answered {success: true} after one of its corrective updates
\* returned an error.
C9_Witness ==
    /\ AfterPrimaryDelete
    /\ IsSuccess(resp)
    /\ resp.r.erred

\* --------------------------------------------------------------------- C10
\* C10: with user Create requests in flight together and no store failure,
\* a Create that queried the maximum order in the same table state as
\* another Create, before either inserted, inserts a record with the order
\* of the record the other inserted: the table then holds two records with
\* one order.
C10_CreateRace ==
    (Answered("PostUsers") /\ resp.status = 201 /\ resp.r.rival # 0) =>
        \E a, b \in users :
            /\ a.id = resp.r.rival
            /\ b = resp.data
            /\ a.id # b.id
            /\ a.order = b.order

\* Both Creates of a race have inserted: two records with one order.
C10_Witness ==
    /\ Answered("PostUsers")
    /\ resp.status = 201
    /\ resp.r.rival # 0
    /\ \E a, b \in users : a.id # b.id /\ a.order = b.order

\* --------------------------------------------------------------------- C11
\* The list a Delete re-read had a gap or a duplicate in its orders.
Broken(all) == \E k \in DOMAIN all : all[k].order # k

\* Every record of the re-read list is in the table with its position for
\* its order.
Renumbered(all, rows) ==
    /\ Ids(rows) = {all[k].id : k \in DOMAIN all}
    /\ \A k \in DOMAIN all : \A row \in rows : row.id = all[k].id => row.order = k

\* C11: with requests handled one at a time, a user Delete whose store
\* calls all succeed, started on a table whose orders have gaps or
\* duplicates, completes with every remaining record carrying its position
\* in the re-read list as its order, so that the orders are exactly 1..N.
C11_SelfHealing ==
    (DeleteCompleted /\ ~resp.r.erred /\ Broken(resp.r.all)) =>
        /\ Renumbered(resp.r.all, users)
        /\ Dense(users)

\* A Delete completed without a failed store call after it re-read two
\* records with one order.
C11_Witness ==
    /\ DeleteCompleted
    /\ ~resp.r.erred
    /\ Len(resp.r.all) = 2
    /\ resp.r.all[1].order = resp.r.all[2].order

\* --------------------------------------------------------------------- C12
\* C12 as stated: when user Delete requests run concurrently, every store
\* statement atomic and succeeding, then once all of them have completed
\* the orders of the remaining records are exactly 1..N.
C12_AsStated == (DeleteCompleted /\ Quiet) => Dense(users)

\* --------------------------------------------------------------------- C13
\* Records that came in one order in the re-read list are in that order in
\* the table.
OrderKept(all, rows) ==
    \A i, j \in DOMAIN all : all[i].order < all[j].order =>
        \A a, b \in rows : (a.id = all[i].id /\ b.id = all[j].id) => a.order < b.order

CompletesUnfailed ==
    /\ Sends
    /\ resp'.r.op = "DeleteUsers"
    /\ IsSuccess(resp')
    /\ ~resp'.r.erred

\* The table after the step is the table before it, but for the order of
\* the record with identifier id, which is n if the step changed it.
OnlyOrder(id, n) ==
    /\ Ids(users') = Ids(users)
    /\ \A old \in users : \A new \in users' : new.id = old.id =>
          \/ new = old
          \/ old.id = id /\ new = [old EXCEPT !.order = n]

Distinct(rows) == \A a, b \in rows : a.order = b.order => a = b

\* C14: starting from an empty users table, with user Create and Delete
\* requests handled one at a time and no store call failing, after every
\* request the orders of the user records are pairwise distinct and are
\* exactly 1..N.
C14_QuiescentDensity == Quiet => Distinct(users) /\ Dense(users)

\* No request in flight, after a Delete moved a record to an order that is
\* not the one it was created with.
C14_Witness ==
    /\ Quiet
    /\ recent.kind = "user deleted"
    /\ \E row \in users : row.id # row.order

\* --------------------------------------------------------------------- C15
\* A response to one of the handlers that take a path identifier.
Keyed == resp.sent = 1 /\ resp.r.op \in Updates \cup Deletes

\* The key the rule of C15 gives a path identifier.
KeyByRule(pid) ==
    IF Number(pid) # NaN
    THEN [kind |-> "number", num |-> Number(pid), str |-> <<>>]
    ELSE [kind |-> "string", num |-> 0, str |-> pid]

\* C15 as stated: in each of the five handlers the value that keys the
\* store filter is the number the path identifier denotes whenever it
\* parses as a number ("0" included), and the unchanged string otherwise.
C15_AsStated == Keyed => resp.r.key = KeyByRule(resp.r.pid)

\* The key of C15 with zero set apart: a number only when the identifier
\* denotes a number other than 0.
KeyNonZero(pid) ==
    IF Number(pid) # NaN /\ Number(pid) # 0
    THEN [kind |-> "number", num |-> Number(pid), str |-> <<>>]
    ELSE [kind |-> "string", num |-> 0, str |-> pid]

\* The table a handler works on.
TableOf(o) == IF o \in {"PutAtt", "DeleteAtt"} THEN att ELSE users

\* A record whose id is the number the path identifier denotes.
Denoted(pid, rows) == Number(pid) # NaN /\ \E row \in rows : row.id = Number(pid)

\* C15 amended: in each of the five handlers the value that keys the store
\* filter is the number the path identifier denotes whenever it parses as a
\* number other than 0, and the unchanged string otherwise ("0", which
\* parses as the number 0, included); either way the filter selects exactly
\* the record whose id is the number the identifier denotes, if there is
\* one.
C15_IdParsing ==
    [][ /\ (Sends /\ resp'.r.op \in Updates \cup Deletes) =>
              resp'.r.key = KeyNonZero(resp'.r.pid)
        /\ (Sends /\ resp'.r.op \in Updates \cup {"DeleteAtt"}) =>
              (resp'.found <=> Denoted(resp'.r.pid, TableOf(resp'.r.op)))
        /\ \A c \in Clients :
              (req[c].pc = "idle" /\ req'[c].op = "DeleteUsers") =>
                  (req'[c].found <=> Denoted(req'[c].pid, users))
      ]_vars

\* A Delete of "0" on a table with records, keyed by the string and
\* answered {success: true}.
C15_Witness ==
    /\ Answered("DeleteAtt")
    /\ resp.r.pid = <<"0">>
    /\ resp.r.key.kind = "string"
    /\ IsSuccess(resp)
    /\ att # {}

\* --------------------------------------------------------------------- C16
\* The latest step answered a Create whose first store call (the max-order
\* query, the existence check) failed.
PreReadFailed ==
    /\ Sends
    /\ resp'.r.op \in {"PostUsers", "PostAtt"}
    /\ resp'.stage = "idle"
    /\ resp'.out # "ok"

\* No Create is left in flight.
NoInsertPending == \A c \in Clients : req'[c].op \notin {"PostUsers", "PostAtt"}

\* C16: a user Create whose max-order query fails, and an
\* attendanceHistory Create whose existence check fails, is answered 500
\* with {error, detail}; the request ends there (no insert, no second
\* attempt) and both tables are as they were.
C16_FailedPreRead ==
    [][PreReadFailed =>
          /\ Is500(resp')
          /\ NoInsertPending
          /\ users' = users /\ nextUserId' = nextUserId
          /\ att' = att /\ nextAttId' = nextAttId
      ]_vars

\* An attendanceHistory Create answered 500 after its existence check
\* returned an error, on a table with a record.
C16_Witness ==
    /\ Answered("PostAtt")
    /\ resp.stage = "idle"
    /\ resp.out = "err"
    /\ Is500(resp)
    /\ att # {}

\* --------------------------------------------------------------------- C17
\* C17: on every path of every handler, store errors and thrown exceptions
\* included, a request sends exactly one response: a request in flight ends
\* only with a response to its client; a handler step that sends nothing
\* leaves its request suspended at a store call; the request that was
\* answered is over, so it sends nothing more; and a request suspended at a
\* store call is eventually answered, provided the call returns or throws.
C17_OneResponse ==
    /\ [][ /\ \A c \in Clients :
                (req[c].pc # "idle" /\ req'[c].pc = "idle") =>
                    (Sends /\ resp'.client = c)
           /\ (resp.sent = 0 /\ resp'.sent = 0) =>
                \E c \in Clients : req'[c].pc # "idle" /\ req'[c] # req[c]
           /\ Sends => req'[resp'.client].pc = "idle"
           /\ resp.sent = 1 => resp'.sent = 0
         ]_vars
    /\ \A c \in Clients :
          (req[c].pc # "idle") ~> (resp.sent = 1 /\ resp.client = c)

\* A user Delete answered 500 from its catch block, after a corrective
\* update threw.
C17_Witness ==
    /\ Answered("DeleteUsers")
    /\ resp.stage = "loop"
    /\ resp.out = "throw"
    /\ Is500(resp)
    /\ Free(resp.client)

\* --------------------------------------------------------------------- C18
\* The latest step is a step of the request of client c: it moved the
\* request to another await, on in its loop, or to its end.
Acts(c) ==
    \/ req'[c].op # req[c].op
    \/ req'[c].pc # req[c].pc
    \/ req'[c].i # req[c].i

\* C18: with requests of several clients interleaving, each step is one
\* store call of one request, and within a request the calls come one
\* after the other: a user Create is suspended at its insert only from its
\* max-order query (which inserts nothing), and inserts from there; a user
\* Delete is suspended at its re-read only from its delete statement, at
\* its loop only from the re-read, and in the loop the updates go through
\* the one re-read list in ascending position; and the table changes only
\* by the call the acting request is suspended at.
C18_InRequestOrder ==
    [][ /\ \A c, d \in Clients : (Acts(c) /\ Acts(d)) => c = d
        /\ \A c \in Clients :
              /\ (req'[c].pc = "insert" /\ req[c].pc # "insert") =>
                    (req[c].pc = "idle" /\ req'[c].op = "PostUsers" /\ users' = users)
              /\ req[c].pc = "insert" => req'[c].pc \in {"insert", "idle"}
              /\ (req'[c].pc = "refetch" /\ req[c].pc # "refetch") =>
                    (req[c].pc = "idle" /\ req'[c].op = "DeleteUsers")
              /\ req[c].pc = "refetch" => req'[c].pc \in {"refetch", "loop", "idle"}
              /\ (req'[c].pc = "loop" /\ req[c].pc # "loop") => req[c].pc = "refetch"
              /\ req[c].pc = "loop" => req'[c].pc \in {"loop", "idle"}
              /\ (req[c].pc = "loop" /\ req'[c].pc = "loop") =>
                    (req'[c].all = req[c].all /\ req'[c].i >= req[c].i)
        /\ users' # users =>
              \E c \in Clients :
                  /\ Acts(c)
                  /\ \/ req[c].op = "PostUsers" /\ req[c].pc = "insert"
                     \/ req[c].pc = "idle" /\ req'[c].pc = "refetch"
                     \/ req[c].op = "DeleteUsers" /\ req[c].pc = "loop"
      ]_vars

\* A Delete at the second position of its re-read list while the request
\* of another client is in flight.
C18_Witness ==
    \E c, d \in Clients :
        /\ c # d
        /\ req[c].op = "DeleteUsers" /\ req[c].pc = "loop" /\ req[c].i = 2
        /\ req[d].pc # "idle"

\* --------------------------------------------------------------------- C19
\* C19: the record a user Create answered 201 with, which is the record it
\* inserted, is in the table and carries the order the handler computed
\* from its max-order query, whatever order the body names; its checked
\* is false when the body has no checked or a null one and the checked of
\* the body otherwise; every other field of the body is in the record
\* with the value of the body.
C19_CreateFields ==
    (Answered("PostUsers") /\ resp.status = 201) =>
        LET body == resp.r.body
            row  == resp.data
        IN  /\ row \in users
            /\ row.order = resp.r.newOrder
            /\ row.checked =
                  IF "checked" \in DOMAIN body /\ body["checked"] # NULL
                  THEN body["checked"] ELSE "false"
            /\ \A f \in (DOMAIN body) \ {"order", "checked"} : row[f] = body[f]

\* A Create answered 201 whose body named an order of its own, other than
\* the computed one, and a null checked.
C19_Witness ==
    /\ Answered("PostUsers")
    /\ resp.status = 201
    /\ "order" \in DOMAIN resp.r.body
    /\ resp.r.body["order"] # resp.data.order
    /\ resp.r.body["checked"] = NULL
    /\ resp.data.checked = "false"
    /\ resp.data.name = resp.r.body["name"]

====
